---- MODULE Spec2Model ----
(***************************************************************************)
(* Event / RSVP backend (src/main.py, src/schemas.py).                     *)
(*                                                                         *)
(* The store holds two collections, "event" and "rsvp".  Request workers   *)
(* run the HTTP handlers; a handler that talks to the store more than once *)
(* (set_rsvp: find_one, then update_one or insert; get_counts: two         *)
(* count_documents) is one action per store round trip, so that other      *)
(* workers can interleave between the round trips.  The store is taken to  *)
(* be reachable (db is not None and no round trip faults).                 *)
(***************************************************************************)
EXTENDS Naturals, Sequences, FiniteSets, TLC

\* ------------------------------------------------------------------ bounds
MaxDocs == 2           \* documents the store accepts before the model stops inserting
FirstOid == 10         \* value of the first generated ObjectId (its text ends in "a")

\* request workers running handlers concurrently
Workers == {"w1", "w2"}

\* -------------------------------------------------------- values and texts
None == "<None>"       \* Python None / an absent JSON member; not a str

OidHexLen == 24        \* an ObjectId is 12 bytes, written as 24 hex characters

HexChars == <<"0","1","2","3","4","5","6","7","8","9","a","b","c","d","e","f">>
UpperHexChars == <<"0","1","2","3","4","5","6","7","8","9","A","B","C","D","E","F">>

IsHexChar(c) == \E i \in 1..16 : HexChars[i] = c \/ UpperHexChars[i] = c
HexVal(c) == (CHOOSE i \in 1..16 : HexChars[i] = c \/ UpperHexChars[i] = c) - 1

RECURSIVE HexToNat(_)
HexToNat(s) ==
    IF s = <<>> THEN 0
    ELSE 16 * HexToNat(SubSeq(s, 1, Len(s) - 1)) + HexVal(s[Len(s)])

RECURSIVE NatToHex(_, _)
NatToHex(n, w) ==
    IF w = 0 THEN <<>>
    ELSE Append(NatToHex(n \div 16, w - 1), HexChars[(n % 16) + 1])

\* str(ObjectId): lower-case hex, fixed width
ObjectIdStr(oid) == NatToHex(oid, OidHexLen)

\* ObjectId(text): accepts exactly OidHexLen hex characters of either case,
\* raises InvalidId otherwise
ValidObjectIdText(text) ==
    /\ Len(text) = OidHexLen
    /\ \A i \in 1..Len(text) : IsHexChar(text[i])
ObjectId(text) == HexToNat(text)

ToUpper(text) ==
    [i \in 1..Len(text) |->
        IF \E k \in 1..16 : HexChars[k] = text[i]
        THEN UpperHexChars[CHOOSE k \in 1..16 : HexChars[k] = text[i]]
        ELSE text[i]]

NotAnId == <<"p","a","r","t","y">>

\* event_id path texts offered to get_event
GetEventTexts ==
    { ObjectIdStr(FirstOid), ToUpper(ObjectIdStr(FirstOid)),
      ObjectIdStr(FirstOid + 1), NotAnId }
\* event_id path texts offered to the rsvp handlers
RsvpEventTexts == { ObjectIdStr(FirstOid), NotAnId }

UserIds == {"u1", "u2"}
Statuses == {"going", "not_going", "maybe"}

\* ----------------------------------------------------------------- schemas
\* class Event: title, date_iso, location required str; the other two Optional
ValidEvent(e) ==
    /\ e.title # None
    /\ e.date_iso # None
    /\ e.location # None

EventPayloads ==
    { [title |-> "Gala", description |-> None, date_iso |-> "2025-01-01",
       location |-> "Hall", cover_image_url |-> None],
      [title |-> "Gala", description |-> "fun", date_iso |-> "2025-01-01",
       location |-> "Hall", cover_image_url |-> "http://img"],
      [title |-> None, description |-> None, date_iso |-> "2025-01-01",
       location |-> "Hall", cover_image_url |-> None] }

\* class RsvpRequest: status: str, user_id: str, user_name: Optional[str]
ValidRsvpRequest(b) ==
    /\ b.status # None
    /\ b.user_id # None

\* request bodies offered to set_rsvp: every status (and a missing one) for every
\* user; the display name differs between the statuses
NameWith(st) == IF st = "not_going" THEN "Ann" ELSE None
RsvpBodies ==
    { [status |-> st, user_id |-> u, user_name |-> NameWith(st)] :
          st \in Statuses, u \in UserIds }
    \cup { [status |-> None, user_id |-> "u1", user_name |-> None] }

\* ------------------------------------------------------------------- state
VARIABLES
    event,        \* db["event"]: set of documents
    rsvp,         \* db["rsvp"]: set of documents
    nextOid,      \* the store's generator of fresh _id values
    pc,           \* per worker: "idle" or the store round trip it is about to make
    req,          \* per worker: the request of the handler it is running
    existing,     \* per worker: set_rsvp's local `existing`: {} for None, else {_id}
    going,        \* per worker: get_counts' local `going`
    exchange,     \* the request/response pair completed last
    submitted     \* history: per (event_id, user_id), the first id returned, the latest
                  \* values written, and whether an update ran with several documents

vars == <<event, rsvp, nextOid, pc, req, existing, going, exchange, submitted>>

NoReq == [op |-> "none"]
NoResp == [code |-> 0]

Pairs == RsvpEventTexts \X UserIds
NotSubmitted ==
    [first_id |-> <<>>, status |-> None, user_name |-> None, dup_updated |-> FALSE]

Init ==
    /\ event = {}
    /\ rsvp = {}
    /\ nextOid = FirstOid
    /\ pc = [w \in Workers |-> "idle"]
    /\ req = [w \in Workers |-> NoReq]
    /\ existing = [w \in Workers |-> {}]
    /\ going = [w \in Workers |-> 0]
    /\ exchange = [req |-> NoReq, resp |-> NoResp]
    /\ submitted = [pr \in Pairs |-> NotSubmitted]

\* ------------------------------------------------------------------- store
CanInsert == nextOid < FirstOid + MaxDocs

\* the documents matching {"event_id": e, "user_id": u}
Matching(coll, e, u) == { d \in coll : d.event_id = e /\ d.user_id = u }

\* a lookup that never matches (a filter on a field the documents do not carry)
FindOneNoMatch(coll, e, u) == {{}}

\* find_one({"event_id": e, "user_id": u}): the results it may return, each {} (None,
\* nothing matches) or {_id} of a matching document.  With several matching
\* documents the store returns the first in its natural order, which the handlers
\* do not control: any of them.
FindOne(coll, e, u) ==
    IF Matching(coll, e, u) = {} THEN {{}}
    ELSE { {d._id} : d \in Matching(coll, e, u) }

TheId(found) == CHOOSE id \in found : TRUE

\* find_one({"_id": oid}) on the event collection
FindById(coll, oid) == { d \in coll : d._id = oid }

\* update_many({"event_id": ..., "user_id": ...}, {"$set": data}): every document of
\* the pair instead of the one found
UpdateMany(coll, id, data) ==
    { IF d.event_id = data.event_id /\ d.user_id = data.user_id
      THEN [d EXCEPT !.status = data.status, !.user_name = data.user_name]
      ELSE d : d \in coll }

\* update_one({"_id": id}, {"$set": data})
UpdateOne(coll, id, data) ==
    { IF d._id = id
      THEN [d EXCEPT !.event_id = data.event_id, !.user_id = data.user_id,
                     !.status = data.status, !.user_name = data.user_name]
      ELSE d : d \in coll }

\* count_documents({"status": s}): the event_id filter left out
CountDocumentsAnyEvent(coll, e, s) ==
    Cardinality({ d \in coll : d.status = s })

\* count_documents({"event_id": e, "status": s})
CountDocuments(coll, e, s) ==
    Cardinality({ d \in coll : d.event_id = e /\ d.status = s })

\* create_document(collection_name, data): insert with a fresh _id
InsertOne(coll, oid, data) ==
    coll \cup { [f \in DOMAIN data \cup {"_id"} |-> IF f = "_id" THEN oid ELSE data[f]] }

\* ---------------------------------------------------------------- handlers
HTTPError(code, detail) == [code |-> code, detail |-> detail]
Ok(body) == [code |-> 200, body |-> body]

\* _doc_to_event_out with description left out of the projection
DocToEventOutNoDescription(doc) ==
    [id |-> ObjectIdStr(doc._id), title |-> doc.title, description |-> None,
     date_iso |-> doc.date_iso, location |-> doc.location,
     cover_image_url |-> doc.cover_image_url]

\* _doc_to_event_out
DocToEventOut(doc) ==
    [id |-> ObjectIdStr(doc._id), title |-> doc.title, description |-> doc.description,
     date_iso |-> doc.date_iso, location |-> doc.location,
     cover_image_url |-> doc.cover_image_url]

\* POST /api/events
CreateEvent(w, inp) ==
    /\ pc[w] = "idle"
    /\ \E e \in inp.payloads :
        LET r == [op |-> "create_event", body |-> e] IN
        IF ~ValidEvent(e)
        THEN /\ exchange' = [req |-> r, resp |-> HTTPError(422, "validation")]
             /\ UNCHANGED <<event, nextOid>>
        ELSE /\ CanInsert
             /\ event' = InsertOne(event, nextOid, e)
             /\ nextOid' = nextOid + 1
             /\ exchange' = [req |-> r, resp |-> Ok([id |-> ObjectIdStr(nextOid)])]
    /\ UNCHANGED <<rsvp, pc, req, existing, going, submitted>>

\* get_event with `except HTTPException: raise` ahead of the generic handler, as
\* get_my_rsvp has it: the 404 gets through
GetEventResponseReraise(coll, t) ==
    IF ~ValidObjectIdText(t)
    THEN HTTPError(400, "InvalidId")
    ELSE IF FindById(coll, ObjectId(t)) = {}
         THEN HTTPError(404, "Event not found")
         ELSE Ok(DocToEventOut(CHOOSE d \in FindById(coll, ObjectId(t)) : TRUE))

\* get_event's response to the path text t
GetEventResponse(coll, t) ==
    IF ~ValidObjectIdText(t)
    THEN HTTPError(400, "InvalidId")
    ELSE IF FindById(coll, ObjectId(t)) = {}
         THEN HTTPError(400, "404: Event not found")
         ELSE Ok(DocToEventOut(CHOOSE d \in FindById(coll, ObjectId(t)) : TRUE))

\* GET /api/events/{event_id}
GetEvent(w, inp) ==
    /\ pc[w] = "idle"
    /\ \E t \in inp.texts :
        exchange' = [req |-> [op |-> "get_event", event_id |-> t],
                     resp |-> GetEventResponse(event, t)]
    /\ UNCHANGED <<event, rsvp, nextOid, pc, req, existing, going, submitted>>

\* set_rsvp's `data` dict
RsvpData(r) ==
    [event_id |-> r.event_id, user_id |-> r.body.user_id,
     status |-> r.body.status, user_name |-> r.body.user_name]

\* RsvpOut(id=..., event_id=..., user_id=..., status=..., user_name=...)
RsvpOut(id, data) ==
    [id |-> id, event_id |-> data.event_id, user_id |-> data.user_id,
     status |-> data.status, user_name |-> data.user_name]

\* set_rsvp that looks the event up first and fails when there is none
SetRsvpFindEventChecked(w, inp) ==
    /\ pc[w] = "idle"
    /\ \E e \in inp.rsvp_events, b \in inp.bodies :
        LET r == [op |-> "set_rsvp", event_id |-> e, body |-> b] IN
        IF ~ValidRsvpRequest(b)
        THEN /\ exchange' = [req |-> r, resp |-> HTTPError(422, "validation")]
             /\ UNCHANGED <<pc, req, existing>>
        ELSE IF ~ValidObjectIdText(e) \/ FindById(event, ObjectId(e)) = {}
        THEN /\ exchange' = [req |-> r, resp |-> HTTPError(500, "404: Event not found")]
             /\ UNCHANGED <<pc, req, existing>>
        ELSE /\ \E x \in FindOne(rsvp, e, b.user_id) :
                    existing' = [existing EXCEPT ![w] = x]
             /\ req' = [req EXCEPT ![w] = r]
             /\ pc' = [pc EXCEPT ![w] = "set_rsvp_write"]
             /\ UNCHANGED exchange
    /\ UNCHANGED <<event, rsvp, nextOid, going, submitted>>

\* POST /api/events/{event_id}/rsvp, first round trip: body validation and find_one
SetRsvpFind(w, inp) ==
    /\ pc[w] = "idle"
    /\ \E e \in inp.rsvp_events, b \in inp.bodies :
        LET r == [op |-> "set_rsvp", event_id |-> e, body |-> b] IN
        IF ~ValidRsvpRequest(b)
        THEN /\ exchange' = [req |-> r, resp |-> HTTPError(422, "validation")]
             /\ UNCHANGED <<pc, req, existing>>
        ELSE /\ \E x \in FindOne(rsvp, e, b.user_id) :
                    existing' = [existing EXCEPT ![w] = x]
             /\ req' = [req EXCEPT ![w] = r]
             /\ pc' = [pc EXCEPT ![w] = "set_rsvp_write"]
             /\ UNCHANGED exchange
    /\ UNCHANGED <<event, rsvp, nextOid, going, submitted>>

\* set_rsvp whose write is an atomic upsert: the lookup is made again at the write
SetRsvpWriteUpsert(w) ==
    /\ pc[w] = "set_rsvp_write"
    /\ LET data == RsvpData(req[w])
           pr == <<data.event_id, data.user_id>>
       IN  \E found \in FindOne(rsvp, data.event_id, data.user_id) :
           LET rsvp_id == IF found # {} THEN ObjectIdStr(TheId(found))
                          ELSE ObjectIdStr(nextOid)
           IN  /\ IF found # {}
                  THEN /\ rsvp' = UpdateOne(rsvp, TheId(found), data)
                       /\ UNCHANGED nextOid
                  ELSE /\ CanInsert
                       /\ rsvp' = InsertOne(rsvp, nextOid, data)
                       /\ nextOid' = nextOid + 1
               /\ exchange' = [req |-> req[w], resp |-> Ok(RsvpOut(rsvp_id, data))]
               /\ submitted' = [submitted EXCEPT ![pr] =
                      [first_id |-> IF submitted[pr] = NotSubmitted THEN rsvp_id
                                    ELSE submitted[pr].first_id,
                       status |-> data.status, user_name |-> data.user_name,
                       dup_updated |-> submitted[pr].dup_updated \/
                           (found # {} /\ Cardinality(Matching(rsvp, pr[1], pr[2])) > 1)]]
    /\ pc' = [pc EXCEPT ![w] = "idle"]
    /\ req' = [req EXCEPT ![w] = NoReq]
    /\ existing' = [existing EXCEPT ![w] = {}]
    /\ UNCHANGED <<event, going>>

\* set_rsvp, second round trip: update_one on the document found, or insert
SetRsvpWrite(w) ==
    /\ pc[w] = "set_rsvp_write"
    /\ LET data == RsvpData(req[w])
           pr == <<data.event_id, data.user_id>>
           rsvp_id == IF existing[w] # {} THEN ObjectIdStr(TheId(existing[w]))
                      ELSE ObjectIdStr(nextOid)
       IN  /\ IF existing[w] # {}
              THEN /\ rsvp' = UpdateOne(rsvp, TheId(existing[w]), data)
                   /\ UNCHANGED nextOid
              ELSE /\ CanInsert
                   /\ rsvp' = InsertOne(rsvp, nextOid, data)
                   /\ nextOid' = nextOid + 1
           /\ exchange' = [req |-> req[w], resp |-> Ok(RsvpOut(rsvp_id, data))]
           /\ submitted' = [submitted EXCEPT ![pr] =
                  [first_id |-> IF submitted[pr] = NotSubmitted THEN rsvp_id
                                ELSE submitted[pr].first_id,
                   status |-> data.status, user_name |-> data.user_name,
                   dup_updated |-> submitted[pr].dup_updated \/
                       (existing[w] # {} /\ Cardinality(Matching(rsvp, pr[1], pr[2])) > 1)]]
    /\ pc' = [pc EXCEPT ![w] = "idle"]
    /\ req' = [req EXCEPT ![w] = NoReq]
    /\ existing' = [existing EXCEPT ![w] = {}]
    /\ UNCHANGED <<event, going>>

\* get_my_rsvp without `except HTTPException: raise`, as get_event has it: the 404
\* is caught by the generic handler and becomes a 500
GetMyRsvpResponseNoReraise(coll, x) ==
    IF x = {}
    THEN HTTPError(500, "404: No RSVP yet")
    ELSE LET doc == CHOOSE d \in coll : d._id = TheId(x) IN
         Ok(RsvpOut(ObjectIdStr(doc._id), doc))

\* get_my_rsvp's response when find_one returned x
GetMyRsvpResponse(coll, x) ==
    IF x = {}
    THEN HTTPError(404, "No RSVP yet")
    ELSE LET doc == CHOOSE d \in coll : d._id = TheId(x) IN
         Ok(RsvpOut(ObjectIdStr(doc._id), doc))

\* GET /api/events/{event_id}/rsvp/{user_id}
GetMyRsvp(w, inp) ==
    /\ pc[w] = "idle"
    /\ \E e \in inp.rsvp_events, u \in inp.users :
        \E x \in FindOne(rsvp, e, u) :
            exchange' = [req |-> [op |-> "get_my_rsvp", event_id |-> e, user_id |-> u],
                         resp |-> GetMyRsvpResponse(rsvp, x)]
    /\ UNCHANGED <<event, rsvp, nextOid, pc, req, existing, going, submitted>>

\* GET /api/events/{event_id}/counts, first round trip: the "going" count
GetCountsGoing(w, inp) ==
    /\ pc[w] = "idle"
    /\ \E e \in inp.rsvp_events :
        /\ req' = [req EXCEPT ![w] = [op |-> "get_counts", event_id |-> e]]
        /\ going' = [going EXCEPT ![w] = CountDocuments(rsvp, e, "going")]
    /\ pc' = [pc EXCEPT ![w] = "get_counts_not_going"]
    /\ UNCHANGED <<event, rsvp, nextOid, existing, exchange, submitted>>

\* get_counts reading both counts from one snapshot, taken at the second round trip
GetCountsSnapshot(w) ==
    /\ pc[w] = "get_counts_not_going"
    /\ exchange' =
           [req |-> req[w],
            resp |-> Ok([going |-> CountDocuments(rsvp, req[w].event_id, "going"),
                         not_going |-> CountDocuments(rsvp, req[w].event_id, "not_going")])]
    /\ pc' = [pc EXCEPT ![w] = "idle"]
    /\ req' = [req EXCEPT ![w] = NoReq]
    /\ going' = [going EXCEPT ![w] = 0]
    /\ UNCHANGED <<event, rsvp, nextOid, existing, submitted>>

\* get_counts, second round trip: the "not_going" count, then the response
GetCountsNotGoing(w) ==
    /\ pc[w] = "get_counts_not_going"
    /\ exchange' =
           [req |-> req[w],
            resp |-> Ok([going |-> going[w],
                         not_going |-> CountDocuments(rsvp, req[w].event_id, "not_going")])]
    /\ pc' = [pc EXCEPT ![w] = "idle"]
    /\ req' = [req EXCEPT ![w] = NoReq]
    /\ going' = [going EXCEPT ![w] = 0]
    /\ UNCHANGED <<event, rsvp, nextOid, existing, submitted>>

Step(w, inp) ==
    \/ CreateEvent(w, inp)
    \/ GetEvent(w, inp)
    \/ SetRsvpFind(w, inp)
    \/ SetRsvpWrite(w)
    \/ GetMyRsvp(w, inp)
    \/ GetCountsGoing(w, inp)
    \/ GetCountsNotGoing(w)

\* Requests handled concurrently: any worker may take its next step.  The rsvp
\* requests are about one event_id text; u1 submits every status, u2 only "going".
RaceInputs ==
    [payloads |-> EventPayloads,
     texts |-> { ObjectIdStr(FirstOid), NotAnId },
     rsvp_events |-> { ObjectIdStr(FirstOid) },
     bodies |-> { b \in RsvpBodies : b.user_id = "u1" \/ b.status = "going" },
     users |-> UserIds]

Next == \E w \in Workers : Step(w, RaceInputs)

Spec == Init /\ [][Next]_vars

\* Requests handled one at a time: a worker steps only while every other is idle.
Serial(w) == \A v \in Workers \ {w} : pc[v] = "idle"

AllInputs ==
    [payloads |-> EventPayloads, texts |-> GetEventTexts,
     rsvp_events |-> RsvpEventTexts, bodies |-> RsvpBodies, users |-> UserIds]

SerialStep(w) ==
    \/ Serial(w) /\ CreateEvent(w, AllInputs)
    \/ Serial(w) /\ GetEvent(w, AllInputs)
    \/ Serial(w) /\ SetRsvpFind(w, AllInputs)
    \/ Serial(w) /\ SetRsvpWrite(w)
    \/ Serial(w) /\ GetMyRsvp(w, AllInputs)
    \/ Serial(w) /\ GetCountsGoing(w, AllInputs)
    \/ Serial(w) /\ GetCountsNotGoing(w)

NextSeq == \E w \in Workers : SerialStep(w)

SpecSeq == Init /\ [][NextSeq]_vars

\* ------------------------------------------------------------------ claims
LastOp == exchange.req.op
LastCode == exchange.resp.code
AllIdle == \A w \in Workers : pc[w] = "idle"
StoreUnchanged == UNCHANGED <<event, rsvp, nextOid>>
ValidStatuses == {"going", "not_going"}

\* C1: with set_rsvp calls run one at a time, the rsvp collection holds at most
\* one document per (event_id, user_id); a pair has a document exactly when it
\* was submitted, that document carries the id the first submission returned
\* and the status and user_name of the latest submission, and the response of a
\* set_rsvp repeats that id and those values.
C1_OneDocumentPerPair ==
    /\ \A pr \in Pairs :
          LET docs == Matching(rsvp, pr[1], pr[2]) IN
          /\ Cardinality(docs) <= 1
          /\ (docs = {}) <=> (submitted[pr] = NotSubmitted)
          /\ \A d \in docs :
                /\ ObjectIdStr(d._id) = submitted[pr].first_id
                /\ d.status = submitted[pr].status
                /\ d.user_name = submitted[pr].user_name
    /\ (LastOp = "set_rsvp" /\ LastCode = 200) =>
          LET r == exchange.req
              sub == submitted[<<r.event_id, r.body.user_id>>] IN
          exchange.resp.body =
              [id |-> sub.first_id, event_id |-> r.event_id, user_id |-> r.body.user_id,
               status |-> r.body.status, user_name |-> r.body.user_name]

\* C1 witness: the last response is that of a set_rsvp which returned the id of
\* the first document ever inserted, after another document was inserted: a
\* later submission for the pair, still with one document.
C1_Resubmitted ==
    /\ LastOp = "set_rsvp" /\ LastCode = 200
    /\ exchange.resp.body.id = ObjectIdStr(FirstOid)
    /\ exchange.resp.body.status = "not_going"
    /\ nextOid > FirstOid + 1
    /\ Cardinality(Matching(rsvp, exchange.req.event_id, exchange.req.body.user_id)) = 1

\* C2: a set_rsvp request whose status is outside {"going", "not_going"} is
\* rejected with a validation error, and no RSVP document carries another status.
C2_StatusValidated ==
    /\ \A d \in rsvp : d.status \in ValidStatuses
    /\ (LastOp = "set_rsvp" /\ exchange.req.body.status \notin ValidStatuses) =>
          LastCode = 422

\* C3: with requests run one at a time, get_counts(e) returns as going the number
\* of users whose latest submission for e is "going" and as not_going the number
\* whose latest submission for e is "not_going".
LatestWith(e, st) == { u \in UserIds : submitted[<<e, u>>].status = st }

C3_CountsLatestSubmissions ==
    LastOp = "get_counts" =>
        /\ LastCode = 200
        /\ exchange.resp.body =
              [going |-> Cardinality(LatestWith(exchange.req.event_id, "going")),
               not_going |-> Cardinality(LatestWith(exchange.req.event_id, "not_going"))]

\* C3 witness: get_counts answered {going: 1, not_going: 0} for one event while
\* a "going" document of another event is in the collection.
C3_OtherEventNotCounted ==
    /\ LastOp = "get_counts" /\ LastCode = 200
    /\ exchange.resp.body = [going |-> 1, not_going |-> 0]
    /\ \E d \in rsvp : d.event_id # exchange.req.event_id /\ d.status = "going"

\* C4: create_event with a valid payload returns the id of a document of the event
\* collection that carries the submitted values; no two documents of the store
\* share an id; an event document, once stored, stays as it is; and get_event on
\* a text naming a stored event returns 200 with that document's id and values.
AllIds == { d._id : d \in event } \cup { d._id : d \in rsvp }

C4_IdsUnique == Cardinality(AllIds) = Cardinality(event) + Cardinality(rsvp)

C4_CreateStoresPayload ==
    (LastOp = "create_event" /\ LastCode = 200) =>
        \E d \in event :
            /\ ObjectIdStr(d._id) = exchange.resp.body.id
            /\ [f \in DOMAIN exchange.req.body |-> d[f]] = exchange.req.body

C4_GetReturnsStored ==
    \A d \in event :
        (LastOp = "get_event" /\ ValidObjectIdText(exchange.req.event_id)
            /\ ObjectId(exchange.req.event_id) = d._id) =>
        /\ LastCode = 200
        /\ exchange.resp.body =
              [id |-> ObjectIdStr(d._id), title |-> d.title,
               description |-> d.description, date_iso |-> d.date_iso,
               location |-> d.location, cover_image_url |-> d.cover_image_url]

C4_CreateThenGet ==
    /\ [](C4_IdsUnique /\ C4_CreateStoresPayload /\ C4_GetReturnsStored)
    /\ [][event \subseteq event' /\ Cardinality(event') <= Cardinality(event) + 1
          /\ \A d \in event' \ event : d._id \notin AllIds]_vars

\* C4 witness: two events with different payloads are stored and get_event has
\* just returned the one with a description and a cover image.
C4_FetchedSecondEvent ==
    /\ Cardinality(event) = 2
    /\ LastOp = "get_event" /\ LastCode = 200
    /\ exchange.resp.body.description = "fun"
    /\ exchange.resp.body.cover_image_url = "http://img"
    /\ \E d \in event : d.description = None

\* C5: get_my_rsvp answers 404 exactly when no document matches the pair, 200
\* with the id and fields of a matching document otherwise, and leaves the store
\* as it was.
C5_Answer ==
    LastOp = "get_my_rsvp" =>
        LET docs == Matching(rsvp, exchange.req.event_id, exchange.req.user_id) IN
        /\ LastCode \in {200, 404}
        /\ LastCode = 404 <=> docs = {}
        /\ LastCode = 200 =>
              \E d \in docs :
                  exchange.resp.body =
                      [id |-> ObjectIdStr(d._id), event_id |-> d.event_id,
                       user_id |-> d.user_id, status |-> d.status,
                       user_name |-> d.user_name]

C5_GetMyRsvp ==
    /\ []C5_Answer
    /\ [][exchange'.req.op = "get_my_rsvp" => StoreUnchanged]_vars

\* C5 witness: get_my_rsvp answered 404 for a pair that has no document while
\* the collection holds a document of another user.
C5_NotFound ==
    /\ LastOp = "get_my_rsvp" /\ LastCode = 404
    /\ Matching(rsvp, exchange.req.event_id, exchange.req.user_id) = {}
    /\ rsvp # {}

\* C6: get_event answers 400 when the path text is no ObjectId and when it is one
\* that no event document carries, never another error status, and leaves the
\* store as it was.
C6_Answer ==
    LastOp = "get_event" =>
        LET t == exchange.req.event_id IN
        /\ LastCode \in {200, 400}
        /\ (~ValidObjectIdText(t)) => LastCode = 400
        /\ (ValidObjectIdText(t) /\ FindById(event, ObjectId(t)) = {}) => LastCode = 400

C6_GetEventErrors ==
    /\ []C6_Answer
    /\ [][exchange'.req.op = "get_event" => StoreUnchanged]_vars

\* C6 witness: get_event answered 400 for a well-formed id that no event carries,
\* with another event stored.
C6_UnknownId ==
    /\ LastOp = "get_event" /\ LastCode = 400
    /\ ValidObjectIdText(exchange.req.event_id)
    /\ FindById(event, ObjectId(exchange.req.event_id)) = {}
    /\ event # {}

\* C7: set_rsvp does not look again when it writes.  A worker that observed "not
\* found" inserts a new document under a fresh id, whatever was inserted since
\* its lookup, and answers 200 with that id; so two requests for one pair that
\* both looked before either wrote leave two documents for the pair.
InsertsBlindly(w) ==
    (pc[w] = "set_rsvp_write" /\ existing[w] = {} /\ pc'[w] = "idle") =>
        /\ nextOid \notin AllIds
        /\ rsvp' = rsvp \cup
              { [_id |-> nextOid, event_id |-> req[w].event_id,
                 user_id |-> req[w].body.user_id, status |-> req[w].body.status,
                 user_name |-> req[w].body.user_name] }
        /\ Cardinality(rsvp') = Cardinality(rsvp) + 1
        /\ exchange'.resp.code = 200
        /\ exchange'.resp.body.id = ObjectIdStr(nextOid)

C7_CheckThenAct == [][\A w \in Workers : InsertsBlindly(w)]_vars

\* C7, the interleaving: both workers are past their lookup for the same pair and
\* both hold "not found".
BothObservedNotFound ==
    \E w, v \in Workers :
        /\ w # v
        /\ pc[w] = "set_rsvp_write" /\ pc[v] = "set_rsvp_write"
        /\ existing[w] = {} /\ existing[v] = {}
        /\ req[w].event_id = req[v].event_id
        /\ req[w].body.user_id = req[v].body.user_id

\* C7 witness: two documents of one pair under different ids, every request
\* answered, the last answer a 200 carrying the id of one of the two.
C7_TwoDocumentsForPair ==
    /\ AllIdle
    /\ LastOp = "set_rsvp" /\ LastCode = 200
    /\ \E d1, d2 \in Matching(rsvp, exchange.req.event_id, exchange.req.body.user_id) :
          /\ d1._id # d2._id
          /\ exchange.resp.body.id = ObjectIdStr(d2._id)
          /\ submitted[<<exchange.req.event_id, exchange.req.body.user_id>>].first_id
                = ObjectIdStr(d1._id)

\* C8: get_counts answers with the "going" count it read at its first round trip
\* and the "not_going" count of the store at its second; nothing ties the two to
\* one state of the store.
ReadsGoingFirst(w) ==
    (pc[w] = "idle" /\ pc'[w] = "get_counts_not_going") =>
        going'[w] = CountDocuments(rsvp, req'[w].event_id, "going")

ReadsNotGoingSecond(w) ==
    (pc[w] = "get_counts_not_going" /\ pc'[w] = "idle") =>
        /\ exchange'.req = req[w]
        /\ exchange'.resp =
              Ok([going |-> going[w],
                  not_going |-> CountDocuments(rsvp, req[w].event_id, "not_going")])

C8_TwoIndependentReads ==
    [][\A w \in Workers : ReadsGoingFirst(w) /\ ReadsNotGoingSecond(w)]_vars

EventDocs(e) == { d \in rsvp : d.event_id = e }

\* C8 witness: with one document per pair, get_counts answered with going +
\* not_going above the number of documents of the event (a user counted twice).
C8_CountedInBoth ==
    /\ LastOp = "get_counts" /\ LastCode = 200
    /\ \A pr \in Pairs : Cardinality(Matching(rsvp, pr[1], pr[2])) <= 1
    /\ exchange.resp.body.going + exchange.resp.body.not_going
          > Cardinality(EventDocs(exchange.req.event_id))

\* C8, the reverse change: every document of the event is "going" or "not_going"
\* and get_counts answered with going + not_going below their number.
C8_CountedInNeither ==
    /\ LastOp = "get_counts" /\ LastCode = 200
    /\ \A d \in EventDocs(exchange.req.event_id) : d.status \in ValidStatuses
    /\ exchange.resp.body.going + exchange.resp.body.not_going
          < Cardinality(EventDocs(exchange.req.event_id))

\* C9: set_rsvp never consults the event collection.  Every set_rsvp request with
\* a valid body is answered 200 and leaves a document with its event_id, user_id
\* and status, whether or not an event of that id exists; get_my_rsvp and
\* get_counts then report the document; set_rsvp leaves the event collection as
\* it was.
EventExists(e) == ValidObjectIdText(e) /\ FindById(event, ObjectId(e)) # {}

C9_Stored ==
    (LastOp = "set_rsvp" /\ ValidRsvpRequest(exchange.req.body)) =>
        /\ LastCode = 200
        /\ \E d \in rsvp :
              /\ ObjectIdStr(d._id) = exchange.resp.body.id
              /\ d.event_id = exchange.req.event_id
              /\ d.user_id = exchange.req.body.user_id
              /\ d.status = exchange.req.body.status

C9_Reported ==
    /\ (LastOp = "get_my_rsvp"
          /\ Matching(rsvp, exchange.req.event_id, exchange.req.user_id) # {}) =>
          (LastCode = 200 /\ exchange.resp.body.event_id = exchange.req.event_id)
    /\ LastOp = "get_counts" =>
          exchange.resp.body =
              [going |-> Cardinality(
                   { d \in EventDocs(exchange.req.event_id) : d.status = "going" }),
               not_going |-> Cardinality(
                   { d \in EventDocs(exchange.req.event_id) : d.status = "not_going" })]

C9_NoReferentialIntegrity ==
    /\ [](C9_Stored /\ C9_Reported)
    /\ [][(exchange'.req.op = "set_rsvp" \/ \E w \in Workers : pc'[w] = "set_rsvp_write")
             => event' = event]_vars

\* C9 witness: an event is stored, and get_counts has just reported one "going"
\* RSVP for an event_id text that names no event.
C9_RsvpWithoutEvent ==
    /\ event # {}
    /\ LastOp = "get_counts" /\ LastCode = 200
    /\ ~EventExists(exchange.req.event_id)
    /\ exchange.resp.body.going = 1

\* C10: RSVP documents are never deleted and never change pair; a set_rsvp that
\* found a document rewrites that document alone and leaves every other one,
\* the other documents of the same pair included, as it was.  Duplicates of a
\* pair therefore stay, and can carry different statuses.
NeverDeleted ==
    /\ { d._id : d \in rsvp } \subseteq { d._id : d \in rsvp' }
    /\ \A pr \in Pairs :
          Cardinality(Matching(rsvp', pr[1], pr[2]))
              >= Cardinality(Matching(rsvp, pr[1], pr[2]))

UpdatesOnlyFound(w) ==
    (pc[w] = "set_rsvp_write" /\ existing[w] # {} /\ pc'[w] = "idle") =>
        /\ Cardinality(rsvp') = Cardinality(rsvp)
        /\ \A d \in rsvp : d._id # TheId(existing[w]) => d \in rsvp'
        /\ \E d \in rsvp' :
              /\ d._id = TheId(existing[w])
              /\ d.status = req[w].body.status
              /\ d.user_name = req[w].body.user_name

C10_DuplicatesPersist ==
    [][NeverDeleted /\ \A w \in Workers : UpdatesOnlyFound(w)]_vars

\* C10 witness: a pair has two documents, a set_rsvp updated one of them while
\* both existed, they now carry "going" and "not_going", and get_counts has just
\* counted the pair's user under both.
C10_CountedUnderBoth ==
    /\ AllIdle
    /\ LastOp = "get_counts" /\ LastCode = 200
    /\ exchange.resp.body.going >= 1 /\ exchange.resp.body.not_going >= 1
    /\ \E u \in UserIds :
          /\ submitted[<<exchange.req.event_id, u>>].dup_updated
          /\ \E d1, d2 \in Matching(rsvp, exchange.req.event_id, u) :
                d1.status = "going" /\ d2.status = "not_going"
====
